---- MODULE Spec2Model ----
(***************************************************************************)
(* A model of the SmartTub API client (src/smarttub/__init__.py).          *)
(*                                                                         *)
(* The client is single threaded and synchronous: every public method is   *)
(* one action.  The HTTP servers (the Auth0 token endpoint and the         *)
(* SmartTub API) are the environment; the responses they give are inputs   *)
(* of the actions.  `op`, `http`, `replies` and `outcome` record the last  *)
(* call, the HTTP requests it issued (in order), the responses it got and  *)
(* how it ended.                                                           *)
(***************************************************************************)
EXTENDS Integers, Sequences, FiniteSets, TLC

VARIABLES
    logged_in,          \* SmartTub.logged_in
    access_token,       \* SmartTub.access_token       (<<>> while the attribute is unset)
    access_token_data,  \* SmartTub.access_token_data  (<<>> while unset)
    expires_at,         \* SmartTub.expires_at         (<<>> while unset)
    refresh_token,      \* SmartTub.refresh_token      (<<>> while unset)
    account_id,         \* SmartTub.account_id         (<<>> while unset)
    op,                 \* the last call: its name and arguments
    http,               \* the HTTP requests the last call issued, in order
    replies,            \* the responses the last call received, in order
    outcome,            \* how the last call ended: a return value or an exception
    pyjwt               \* the release line of the jwt package the client imports

session == <<logged_in, access_token, access_token_data, expires_at,
             refresh_token, account_id>>
vars == <<logged_in, access_token, access_token_data, expires_at,
          refresh_token, account_id, op, http, replies, outcome, pyjwt>>

-----------------------------------------------------------------------------
(* Bounds of the model.                                                    *)

\* time.time() returns a value in 0..MaxTime
MaxTime == 1
\* the list endpoint returns at most MaxSpas summary records
MaxSpas == 2

-----------------------------------------------------------------------------
(* Class constants of SmartTub and Spa.                                    *)

AUTH_AUDIENCE == "https://api.operation-link.com/"
AUTH_URL == "https://smarttub.auth0.com/oauth/token"
AUTH_CLIENT_ID == "dB7Rcp3rfKKh0vHw2uqkwOZmRb5WNjQC"
AUTH_REALM == "Username-Password-Authentication"
AUTH_ACCOUNT_ID_KEY == "http://operation-link.com/account_id"
API_BASE == "https://api.smarttub.io"

SECONDARY_FILTRATION_MODES == {"FREQUENT", "INFREQUENT", "AWAY"}
HEAT_MODES == {"ECONOMY", "DAY", "AUTO"}
LIGHT_MODES == {"PURPLE", "ORANGE", "RED", "YELLOW", "GREEN", "AQUA", "BLUE",
                "HIGH_SPEED_WHEEL", "OFF"}
TEMPERATURE_FORMATS == {"FAHRENHEIT", "CELSIUS"}
ENERGY_USAGE_INTERVALS == {"DAY", "MONTH"}

-----------------------------------------------------------------------------
(* Python values.                                                          *)

\* None, as a return value
PyNone == "None"

\* an optional value: <<>> is absent (an unset attribute, json=None), <<v>> is v
Absent == <<>>
Some(v) == <<v>>

\* how a call ends
Returned(v) == [exc |-> "none", status |-> 0, value |-> v]
Raised(e) == [exc |-> e, status |-> 0, value |-> PyNone]
HTTPError(s) == [exc |-> "HTTPError", status |-> s, value |-> PyNone]

\* the result of running a method body: the requests issued, the responses
\* received and the outcome
Ran(reqs, reps, out) == [http |-> reqs, replies |-> reps, outcome |-> out]

-----------------------------------------------------------------------------
(* The HTTP layer (the requests library).                                  *)

\* the statuses a server answers with
Statuses == {200, 300, 401, 500}

\* Response.raise_for_status() raises HTTPError for 4xx and 5xx only
IsErrorStatus(s) == 400 <= s /\ s < 600

\* a response: a status and a body that is JSON (<<j>>) or is not (<<>>)
Response(s, b) == [status |-> s, body |-> b]

\* an HTTP request as handed to requests.request / requests.post / requests.get
HttpRequest(method, url, auth, json) ==
    [method |-> method, url |-> url, auth |-> auth, json |-> json]


-----------------------------------------------------------------------------
(* JSON objects with a variable key set: a set of <<key, value>> pairs.    *)

HasKey(d, k) == \E kv \in d : kv[1] = k
Lookup(d, k) == (CHOOSE kv \in d : kv[1] = k)[2]

-----------------------------------------------------------------------------
(* Access tokens.  A JWT is header.payload.signature; a string that is not *)
(* three segments is malformed.                                            *)

JwtHeader == "eyJhbGciOiJSUzI1NiJ9"
AccountIds == {"a1", "a2"}
TokenFor(acct) ==
    <<JwtHeader, {<<AUTH_ACCOUNT_ID_KEY, acct>>, <<"sub", "auth0|user">>}, "sig-" \o acct>>
TokenNoAccount == <<JwtHeader, {<<"sub", "auth0|user">>}, "sig-none">>
TokenMalformed == <<"not-a-jwt">>
Tokens == {TokenFor(a) : a \in AccountIds} \cup {TokenNoAccount, TokenMalformed}

\* jwt.decode(token, verify=False): the payload's claims, whatever the signature
\* The source pins no release of the jwt package.  PyJWT 1.x takes
\* verify=False and returns the claims of a token of three segments without
\* checking its signature.  PyJWT 2.x ignores the verify keyword, keeps
\* signature verification on and, as the call passes no `algorithms`, raises
\* DecodeError for every token.
PyJwtReleases == {"1.x", "2.x"}
jwt_decode(release, token) ==
    IF release = "1.x" /\ Len(token) = 3
    THEN Returned(token[2])
    ELSE Raised("DecodeError")

-----------------------------------------------------------------------------
(* The token endpoint's answers.                                           *)

TokenBody(token, lifetime, refresh, type) ==
    [access_token |-> token, expires_in |-> lifetime, refresh_token |-> refresh,
     token_type |-> type]
LoginBodies ==
    { TokenBody(TokenFor("a1"), 1, "refresh-1", "Bearer"),
      TokenBody(TokenFor("a2"), 2, "refresh-2", "Bearer"),
      TokenBody(TokenFor("a2"), 3, "refresh-3", "MAC"),
      TokenBody(TokenNoAccount, 1, "refresh-4", "Bearer"),
      TokenBody(TokenMalformed, 1, "refresh-5", "Bearer") }
LoginResponses ==
    {Response(s, b) : s \in {x \in Statuses : ~IsErrorStatus(x)},
                      b \in {Absent} \cup {Some(j) : j \in LoginBodies}}
    \cup {Response(s, Absent) : s \in {x \in Statuses : IsErrorStatus(x)}}

Usernames == {"user@example.com"}
Passwords == {"hunter2"}
ClockTimes == 0..MaxTime

-----------------------------------------------------------------------------
(* SmartTub.__init__ and SmartTub.login.                                   *)

Init ==
    /\ logged_in = FALSE
    /\ access_token = Absent
    /\ access_token_data = Absent
    /\ expires_at = Absent
    /\ refresh_token = Absent
    /\ account_id = Absent
    /\ op = [name |-> "__init__"]
    /\ http = <<>>
    /\ replies = <<>>
    /\ outcome = Returned(PyNone)
    /\ pyjwt \in PyJwtReleases

\* the JSON body of the password-realm grant request
LoginRequestBody(username, password) ==
    [audience |-> AUTH_AUDIENCE, client_id |-> AUTH_CLIENT_ID,
     grant_type |-> "http://auth0.com/oauth/grant-type/password-realm",
     realm |-> AUTH_REALM, scope |-> "openid email offline_access User Admin",
     username |-> username, password |-> password]

\* self.expires_at = time.time() + j['expires_in']
ExpiresAt(now, j) == now + j.expires_in

\* self.account_id = self.access_token_data[self.AUTH_ACCOUNT_ID_KEY]
AccountIdOf(claims) == Lookup(claims, AUTH_ACCOUNT_ID_KEY)

\* the statements of login after r.json(), in order; an exception ends the
\* method and keeps the assignments made before it
LoginAssign(j, now) ==
    /\ access_token' = Some(j.access_token)
    /\ IF jwt_decode(pyjwt, j.access_token).exc # "none"
       THEN /\ outcome' = jwt_decode(pyjwt, j.access_token)
            /\ UNCHANGED <<access_token_data, expires_at, refresh_token,
                           account_id, logged_in>>
       ELSE /\ access_token_data' = Some(jwt_decode(pyjwt, j.access_token).value)
            /\ expires_at' = Some(ExpiresAt(now, j))
            /\ refresh_token' = Some(j.refresh_token)
            /\ IF j.token_type # "Bearer"
               THEN /\ outcome' = Raised("AssertionError")
                    /\ UNCHANGED <<account_id, logged_in>>
               ELSE IF ~HasKey(jwt_decode(pyjwt, j.access_token).value,
                                   AUTH_ACCOUNT_ID_KEY)
               THEN /\ outcome' = Raised("KeyError")
                    /\ UNCHANGED <<account_id, logged_in>>
               ELSE /\ account_id' = Some(AccountIdOf(
                                         jwt_decode(pyjwt, j.access_token).value))
                    /\ logged_in' = TRUE
                    /\ outcome' = Returned(PyNone)

Login(username, password, r, now) ==
    /\ op' = [name |-> "login",
              args |-> [username |-> username, password |-> password, now |-> now]]
    /\ http' = <<HttpRequest("POST", AUTH_URL, Absent,
                             Some(LoginRequestBody(username, password)))>>
    /\ replies' = <<r>>
    /\ UNCHANGED pyjwt
    /\ IF IsErrorStatus(r.status)
       THEN /\ outcome' = HTTPError(r.status)
            /\ UNCHANGED session
       ELSE IF r.body = Absent
       THEN /\ outcome' = Raised("JSONDecodeError")
            /\ UNCHANGED session
       ELSE LoginAssign(r.body[1], now)

-----------------------------------------------------------------------------
(* SmartTub.request and SmartTub.get_account.                              *)

\* the shape of an API answer: its status and whether its body is JSON; the
\* JSON itself is the payload of the resource asked for
Shapes ==
    {[status |-> s, json |-> b] : s \in {x \in Statuses : ~IsErrorStatus(x)},
                                  b \in BOOLEAN}
    \cup {[status |-> s, json |-> FALSE] : s \in {x \in Statuses : IsErrorStatus(x)}}
Respond(shape, payload) ==
    Response(shape.status, IF shape.json THEN Some(payload) ELSE Absent)
Passes(shape) == ~IsErrorStatus(shape.status) /\ shape.json

\* the tail of request and get_account: r.raise_for_status(); return r.json()
Receive(req, r) ==
    IF IsErrorStatus(r.status) THEN Ran(<<req>>, <<r>>, HTTPError(r.status))
    ELSE IF r.body = Absent THEN Ran(<<req>>, <<r>>, Raised("JSONDecodeError"))
    ELSE Ran(<<req>>, <<r>>, Returned(r.body[1]))

\* SmartTub.request(method, path, body), answered by r
ApiRequest(method, path, body, r) ==
    IF ~logged_in THEN Ran(<<>>, <<>>, Raised("RuntimeError"))
    ELSE Receive(HttpRequest(method, API_BASE \o "/" \o path, access_token, body), r)

\* Account.__init__
Account(properties) ==
    [id |-> properties.id, email |-> properties.email, properties |-> properties]

\* the account record the API holds for an account id
AccountRecord(id) == [id |-> id, email |-> id \o "@example.com"]

\* SmartTub.get_account(), answered by r
get_account(r) ==
    IF ~logged_in THEN Ran(<<>>, <<>>, Raised("RuntimeError"))
    ELSE LET got == Receive(HttpRequest("GET", API_BASE \o "/accounts/" \o account_id[1],
                                        access_token, Absent), r)
         IN  IF got.outcome.exc # "none" THEN got
             ELSE Ran(got.http, got.replies, Returned(Account(got.outcome.value)))

-----------------------------------------------------------------------------
(* Account.get_spas, Account.get_spa and Spa.__init__.                     *)

SpaIds == {"s1", "s2"}

\* the device record the API holds for a device id, and its summary
SpaRecord(id) == [id |-> id, brand |-> "Jacuzzi", model |-> "J-235"]
SpaSummary(id) == [id |-> id]

\* Spa.__init__
Spa(account, properties) ==
    [account |-> account.id, id |-> properties.id, brand |-> properties.brand,
     model |-> properties.model, properties |-> properties]

\* the path of one device
SpaPath(spa_id) == "spas/" \o spa_id

\* Account.get_spa(spa_id), answered by r
get_spa(account, spa_id, r) ==
    LET got == ApiRequest("GET", SpaPath(spa_id), Absent, r)
    IN  IF got.outcome.exc # "none" THEN got
        ELSE Ran(got.http, got.replies, Returned(Spa(account, got.outcome.value)))

\* the loop of get_spas from the i-th summary record on; shapes[k] answers the
\* fetch of the k-th record
RECURSIVE FetchSpas(_, _, _, _, _)
FetchSpas(account, content, shapes, i, sofar) ==
    IF i > Len(content) THEN sofar
    ELSE LET one == get_spa(account, content[i].id,
                            Respond(shapes[i], SpaRecord(content[i].id)))
         IN  IF one.outcome.exc # "none"
             THEN Ran(sofar.http \o one.http, sofar.replies \o one.replies, one.outcome)
             ELSE FetchSpas(account, content, shapes, i + 1,
                            Ran(sofar.http \o one.http, sofar.replies \o one.replies,
                                Returned(Append(sofar.outcome.value, one.outcome.value))))

\* the path of the list of an account's devices
OwnerPath(owner) == "spas?ownerId=" \o owner

\* a get_spas that fetches the devices from the last summary record to the first
Reverse(q) == [k \in 1..Len(q) |-> q[Len(q) + 1 - k]]
get_spas_backwards(account, r, shapes) ==
    LET list == ApiRequest("GET", OwnerPath(account.id), Absent, r)
    IN  IF list.outcome.exc # "none" THEN list
        ELSE FetchSpas(account, Reverse(list.outcome.value.content), shapes, 1,
                       Ran(list.http, list.replies, Returned(<<>>)))

\* Account.get_spas(): the list is answered by r, the fetches by shapes
get_spas(account, r, shapes) ==
    LET list == ApiRequest("GET", OwnerPath(account.id), Absent, r)
    IN  IF list.outcome.exc # "none" THEN list
        ELSE FetchSpas(account, list.outcome.value.content, shapes, 1,
                       Ran(list.http, list.replies, Returned(<<>>)))

\* the list payloads: up to MaxSpas summary records of distinct devices
SeqsUpTo(S, n) == UNION {[1..k -> S] : k \in 0..n}
Injective(q) == \A i, j \in 1..Len(q) : q[i] = q[j] => i = j
ListPayloads ==
    {[content |-> c] :
        c \in {q \in SeqsUpTo({SpaSummary(id) : id \in SpaIds}, MaxSpas) : Injective(q)}}
ListResponses == {Respond(shape, list) : shape \in Shapes, list \in ListPayloads}

\* the answers to the fetches of n records: every fetch but the last passes,
\* and the run is n long unless its last answer fails
FetchRuns ==
    [n \in 0..MaxSpas |->
        {run \in SeqsUpTo(Shapes, n) :
            /\ \A k \in 1..(Len(run) - 1) : Passes(run[k])
            /\ Len(run) < n => (Len(run) > 0 /\ ~Passes(run[Len(run)]))}]

-----------------------------------------------------------------------------
(* Spa: the device-scoped request and the getters.                         *)

\* the attributes a Spa has: those of the class and those __init__ sets
SpaAttrs ==
    {"SECONDARY_FILTRATION_MODES", "HEAT_MODES", "LIGHT_MODES", "TEMPERATURE_FORMATS",
     "ENERGY_USAGE_INTERVALS", "_api", "account", "id", "brand", "model", "properties"}

\* date.isoformat() and time.isoformat('minutes')
Pad2(n) == IF n < 10 THEN "0" \o ToString(n) ELSE ToString(n)
Pad4(n) ==
    IF n < 10 THEN "000" \o ToString(n)
    ELSE IF n < 100 THEN "00" \o ToString(n)
    ELSE IF n < 1000 THEN "0" \o ToString(n)
    ELSE ToString(n)
IsoDate(d) == Pad4(d.year) \o "-" \o Pad2(d.month) \o "-" \o Pad2(d.day)
IsoTimeMinutes(t) == Pad2(t.hour) \o ":" \o Pad2(t.minute)

\* Spa.request(method, resource, body), answered by r
SpaRequest(spa, method, resource, body, r) ==
    ApiRequest(method, "spas/" \o spa.id \o "/" \o resource, body, r)

\* a method that makes a request and then falls off its end returns None
Discard(got) ==
    IF got.outcome.exc # "none" THEN got
    ELSE Ran(got.http, got.replies, Returned(PyNone))

\* a method that returns f(j) of the JSON j it received
Project(got, value) ==
    IF got.outcome.exc # "none" THEN got
    ELSE Ran(got.http, got.replies, Returned(value))

\* what the API holds for a device
StatusPayload == [state |-> "NORMAL", setTemperature |-> 38]
DebugPayload == [debugStatus |-> [battery |-> "OK", uptime |-> 3600]]
ErrorsPayload == [content |-> <<[code |-> 11, title |-> "Flow"]>>]
PumpInfo(id) == [id |-> id, speed |-> "ONE_SPEED", state |-> "OFF", type |-> "JET"]
PumpsPayload == [pumps |-> <<PumpInfo("P1"), PumpInfo("CP")>>]
LightInfo(zone) == [zone |-> zone, color |-> "NONE", intensity |-> 0, mode |-> "OFF"]
LightsPayload == [lights |-> <<LightInfo(1), LightInfo(2)>>]
ReminderInfo(id, updated) ==
    [id |-> id, lastUpdated |-> updated, name |-> "Filter", remainingDuration |-> 23,
     snoozed |-> FALSE, state |-> "INACTIVE"]
RemindersPayloads ==
    { [reminders |-> <<ReminderInfo("R1", "2020-09-01T12:00:00Z")>>,
       filters |-> <<ReminderInfo("R1", "2020-09-01T12:00:00Z")>>],
      [reminders |-> <<ReminderInfo("R2", "yesterday")>>,
       filters |-> <<ReminderInfo("R2", "yesterday")>>] }
BucketsPayload == [buckets |-> <<[key |-> "2020-01-02", value |-> 7]>>]
MutationPayload == [status |-> "accepted"]

\* dateutil.parser.isoparse on the timestamps the API sends
IsoTimestamps ==
    { <<"2020-09-01T12:00:00Z",
        [year |-> 2020, month |-> 9, day |-> 1, hour |-> 12, minute |-> 0, second |-> 0]>> }
IsIsoTimestamp(str) == HasKey(IsoTimestamps, str)
isoparse(str) == Lookup(IsoTimestamps, str)

\* SpaPump.__init__, SpaLight.__init__, SpaReminder.__init__
SpaPump(spa, properties) ==
    [spa |-> spa, id |-> properties.id, speed |-> properties.speed,
     state |-> properties.state, type |-> properties.type, properties |-> properties]
SpaLight(spa, properties) ==
    [spa |-> spa, zone |-> properties.zone, color |-> properties.color,
     intensity |-> properties.intensity, mode |-> properties.mode,
     properties |-> properties]
SpaReminder(spa, properties) ==
    [spa |-> spa, id |-> properties.id, last_updated |-> isoparse(properties.lastUpdated),
     name |-> properties.name, remaining_days |-> properties.remainingDuration,
     snoozed |-> properties.snoozed, state |-> properties.state]

get_status(spa, r) == SpaRequest(spa, "GET", "status", Absent, r)

get_pumps(spa, r) ==
    LET got == SpaRequest(spa, "GET", "pumps", Absent, r)
        infos == got.outcome.value.pumps
    IN  Project(got, [k \in 1..Len(infos) |-> SpaPump(spa, infos[k])])

get_lights(spa, r) ==
    LET got == SpaRequest(spa, "GET", "lights", Absent, r)
        infos == got.outcome.value.lights
    IN  Project(got, [k \in 1..Len(infos) |-> SpaLight(spa, infos[k])])

get_errors(spa, r) ==
    LET got == SpaRequest(spa, "GET", "errors", Absent, r)
    IN  Project(got, got.outcome.value.content)

get_reminders(spa, r) ==
    LET got == SpaRequest(spa, "GET", "reminders", Absent, r)
        infos == got.outcome.value.reminders
    IN  IF got.outcome.exc # "none" THEN got
        ELSE IF \E k \in 1..Len(infos) : ~IsIsoTimestamp(infos[k].lastUpdated)
        THEN Ran(got.http, got.replies, Raised("ValueError"))
        ELSE Project(got, [k \in 1..Len(infos) |-> SpaReminder(spa, infos[k])])

get_debug_status(spa, r) ==
    LET got == SpaRequest(spa, "GET", "debugStatus", Absent, r)
    IN  Project(got, got.outcome.value.debugStatus)

get_energy_usage(spa, interval, start_date, end_date, r) ==
    IF interval \notin ENERGY_USAGE_INTERVALS THEN Ran(<<>>, <<>>, Raised("AssertionError"))
    ELSE LET body == [start |-> IsoDate(start_date), end |-> IsoDate(end_date),
                      interval |-> interval]
             got == SpaRequest(spa, "POST", "energyUsage", Some(body), r)
         IN  Project(got, got.outcome.value.buckets)

-----------------------------------------------------------------------------
(* Spa: the mutators.                                                      *)

set_secondary_filtration_mode(spa, mode, r) ==
    IF mode \notin SECONDARY_FILTRATION_MODES THEN Ran(<<>>, <<>>, Raised("AssertionError"))
    ELSE Discard(SpaRequest(spa, "PATCH", "config",
                            Some([secondaryFiltrationConfig |-> mode]), r))

set_heat_mode(spa, mode, r) ==
    IF mode \notin HEAT_MODES THEN Ran(<<>>, <<>>, Raised("AssertionError"))
    ELSE Discard(SpaRequest(spa, "PATCH", "config", Some([heatMode |-> mode]), r))

set_temperature(spa, temp_c, r) ==
    Discard(SpaRequest(spa, "PATCH", "config", Some([setTemperature |-> temp_c]), r))

\* def toggle_clearray(self, str): the call must pass exactly one argument
toggle_clearray(spa, args, r) ==
    IF Len(args) # 1 THEN Ran(<<>>, <<>>, Raised("TypeError"))
    ELSE Discard(SpaRequest(spa, "POST", "clearray/toggle", Absent, r))

\* the assert reads self.TEMPERATURE_MODES, which Spa does not have
set_temperature_format(spa, temperature_format, r) ==
    IF "TEMPERATURE_MODES" \notin SpaAttrs THEN Ran(<<>>, <<>>, Raised("AttributeError"))
    ELSE IF temperature_format \notin TEMPERATURE_FORMATS
    THEN Ran(<<>>, <<>>, Raised("AssertionError"))
    ELSE Discard(SpaRequest(spa, "POST", "config",
                            Some([displayTemperatureFormat |-> temperature_format]), r))

\* the dateTimeConfig dict: the keys given, in insertion order
DateTimeConfig(date, time) ==
    (IF date = Absent THEN <<>> ELSE <<<<"date", IsoDate(date[1])>>>>)
    \o (IF time = Absent THEN <<>> ELSE <<<<"time", IsoTimeMinutes(time[1])>>>>)

\* str() of a dict of strings, as an f-string formats it
RECURSIVE ItemsStr(_)
ItemsStr(items) ==
    IF items = <<>> THEN ""
    ELSE "'" \o items[1][1] \o "': '" \o items[1][2] \o "'"
         \o (IF Len(items) > 1 THEN ", " ELSE "") \o ItemsStr(Tail(items))
DateTimeBodyStr(config) == "{'dateTimeConfig': {" \o ItemsStr(config) \o "}}"

\* self.request('POST', body): the body is passed as the resource, and no
\* body is given
set_date_time(spa, date, time, r) ==
    IF date = Absent /\ time = Absent THEN Ran(<<>>, <<>>, Raised("AssertionError"))
    ELSE Discard(SpaRequest(spa, "POST", DateTimeBodyStr(DateTimeConfig(date, time)),
                            Absent, r))

-----------------------------------------------------------------------------
(* SpaPump and SpaLight.                                                   *)

\* the attributes a SpaLight has
SpaLightAttrs ==
    {"_api", "spa", "zone", "color", "intensity", "mode", "properties"}

\* SpaPump.toggle()
pump_toggle(pump, r) ==
    Discard(SpaRequest(pump.spa, "POST", "pumps/" \o pump.id \o "/toggle", Absent, r))

\* SpaLight.set(intensity, mode): the assert reads self.LIGHT_MODES, which
\* SpaLight does not have
light_set(light, intensity, mode, r) ==
    IF "LIGHT_MODES" \notin SpaLightAttrs THEN Ran(<<>>, <<>>, Raised("AttributeError"))
    ELSE IF mode \notin LIGHT_MODES THEN Ran(<<>>, <<>>, Raised("AssertionError"))
    ELSE IF (intensity = 0) # (mode = "OFF") THEN Ran(<<>>, <<>>, Raised("AssertionError"))
    ELSE Discard(SpaRequest(light.spa, "PATCH", "lights/" \o ToString(light.zone),
                            Some([intensity |-> intensity, mode |-> mode]), r))

\* SpaLight.toggle(): the path reads self.id, which SpaLight does not have
light_toggle(light, r) ==
    IF "id" \notin SpaLightAttrs THEN Ran(<<>>, <<>>, Raised("AttributeError"))
    ELSE Discard(SpaRequest(light.spa, "POST", "pumps/" \o light.id \o "/toggle",
                            Absent, r))

-----------------------------------------------------------------------------
(* The calls as actions.                                                   *)

\* a call that leaves the session alone
Call(name, args, run) ==
    /\ op' = [name |-> name, args |-> args]
    /\ http' = run.http
    /\ replies' = run.replies
    /\ outcome' = run.outcome
    /\ UNCHANGED <<session, pyjwt>>

\* the objects the caller calls methods on
AccountObjects == {Account(AccountRecord("a1"))}
SpaObjects == {Spa(account, SpaRecord("s1")) : account \in AccountObjects}
PumpObjects == {SpaPump(spa, PumpInfo("P1")) : spa \in SpaObjects}
LightObjects == {SpaLight(spa, LightInfo(1)) : spa \in SpaObjects}

\* the arguments the caller passes
Dates == {[year |-> 2020, month |-> 1, day |-> 2], [year |-> 987, month |-> 11, day |-> 30]}
TimesOfDay == {[hour |-> 7, minute |-> 5, second |-> 59]}
Intervals == ENERGY_USAGE_INTERVALS \cup {"YEAR"}
FiltrationModes == SECONDARY_FILTRATION_MODES \cup {"INVALID"}
HeatModes == HEAT_MODES \cup {"INVALID"}
Formats == TEMPERATURE_FORMATS \cup {"KELVIN"}
Temperatures == {38, 40}
LightModes == {"OFF", "BLUE", "STROBE"}
Intensities == {0, 5, 50}

DoLogin ==
    \E u \in Usernames, p \in Passwords, r \in LoginResponses, now \in ClockTimes :
        Login(u, p, r, now)

\* a response is drawn only for a call that sends a request: `probe` is the
\* call under the plain answer, and a call that sends nothing under it sends
\* nothing under any
PlainShape == [status |-> 200, json |-> TRUE]
Answers(probe) == IF probe.http = <<>> THEN {PlainShape} ELSE Shapes

DoRequest ==
    \E spa \in SpaObjects :
        \E shape \in Answers(ApiRequest("GET", SpaPath(spa.id) \o "/status", Absent,
                                        Respond(PlainShape, StatusPayload))) :
            Call("request", [method |-> "GET", path |-> SpaPath(spa.id) \o "/status"],
                 ApiRequest("GET", SpaPath(spa.id) \o "/status", Absent,
                            Respond(shape, StatusPayload)))

DoGetAccount ==
    \E a \in AccountIds :
        \E shape \in Answers(get_account(Respond(PlainShape, AccountRecord(a)))) :
            Call("get_account", <<>>, get_account(Respond(shape, AccountRecord(a))))

DoGetSpa ==
    \E account \in AccountObjects, id \in SpaIds :
        \E shape \in Answers(get_spa(account, id, Respond(PlainShape, SpaRecord(id)))) :
            Call("get_spa", [account |-> account, spa_id |-> id],
                 get_spa(account, id, Respond(shape, SpaRecord(id))))

DoGetSpas ==
    \E account \in AccountObjects :
        \E r \in IF logged_in THEN ListResponses
                 ELSE {Respond(PlainShape, [content |-> <<>>])} :
            \E shapes \in FetchRuns[IF r.body = Absent \/ IsErrorStatus(r.status)
                                    THEN 0 ELSE Len(r.body[1].content)] :
                Call("get_spas", [account |-> account], get_spas(account, r, shapes))

DoGetStatus ==
    \E spa \in SpaObjects :
        \E shape \in Answers(get_status(spa, Respond(PlainShape, StatusPayload))) :
            Call("get_status", [spa |-> spa],
                 get_status(spa, Respond(shape, StatusPayload)))

DoGetPumps ==
    \E spa \in SpaObjects :
        \E shape \in Answers(get_pumps(spa, Respond(PlainShape, PumpsPayload))) :
            Call("get_pumps", [spa |-> spa], get_pumps(spa, Respond(shape, PumpsPayload)))

DoGetLights ==
    \E spa \in SpaObjects :
        \E shape \in Answers(get_lights(spa, Respond(PlainShape, LightsPayload))) :
            Call("get_lights", [spa |-> spa],
                 get_lights(spa, Respond(shape, LightsPayload)))

DoGetErrors ==
    \E spa \in SpaObjects :
        \E shape \in Answers(get_errors(spa, Respond(PlainShape, ErrorsPayload))) :
            Call("get_errors", [spa |-> spa],
                 get_errors(spa, Respond(shape, ErrorsPayload)))

DoGetReminders ==
    \E spa \in SpaObjects, p \in RemindersPayloads :
        \E shape \in Answers(get_reminders(spa, Respond(PlainShape, p))) :
            Call("get_reminders", [spa |-> spa], get_reminders(spa, Respond(shape, p)))

DoGetDebugStatus ==
    \E spa \in SpaObjects :
        \E shape \in Answers(get_debug_status(spa, Respond(PlainShape, DebugPayload))) :
            Call("get_debug_status", [spa |-> spa],
                 get_debug_status(spa, Respond(shape, DebugPayload)))

DoGetEnergyUsage ==
    \E spa \in SpaObjects, interval \in Intervals, start \in Dates,
       end \in {[year |-> 2020, month |-> 12, day |-> 31]} :
        \E shape \in Answers(get_energy_usage(spa, interval, start, end,
                                              Respond(PlainShape, BucketsPayload))) :
            Call("get_energy_usage",
                 [spa |-> spa, interval |-> interval, start_date |-> start,
                  end_date |-> end],
                 get_energy_usage(spa, interval, start, end,
                                  Respond(shape, BucketsPayload)))

DoSetSecondaryFiltrationMode ==
    \E spa \in SpaObjects, mode \in FiltrationModes :
        \E shape \in Answers(set_secondary_filtration_mode(
                                 spa, mode, Respond(PlainShape, MutationPayload))) :
            Call("set_secondary_filtration_mode", [spa |-> spa, mode |-> mode],
                 set_secondary_filtration_mode(spa, mode,
                                               Respond(shape, MutationPayload)))

DoSetHeatMode ==
    \E spa \in SpaObjects, mode \in HeatModes :
        \E shape \in Answers(set_heat_mode(spa, mode,
                                           Respond(PlainShape, MutationPayload))) :
            Call("set_heat_mode", [spa |-> spa, mode |-> mode],
                 set_heat_mode(spa, mode, Respond(shape, MutationPayload)))

DoSetTemperature ==
    \E spa \in SpaObjects, temp_c \in Temperatures :
        \E shape \in Answers(set_temperature(spa, temp_c,
                                             Respond(PlainShape, MutationPayload))) :
            Call("set_temperature", [spa |-> spa, temp_c |-> temp_c],
                 set_temperature(spa, temp_c, Respond(shape, MutationPayload)))

DoToggleClearray ==
    \E spa \in SpaObjects, args \in {<<>>, <<"on">>} :
        \E shape \in Answers(toggle_clearray(spa, args,
                                             Respond(PlainShape, MutationPayload))) :
            Call("toggle_clearray", [spa |-> spa, args |-> args],
                 toggle_clearray(spa, args, Respond(shape, MutationPayload)))

DoSetTemperatureFormat ==
    \E spa \in SpaObjects, format \in Formats :
        \E shape \in Answers(set_temperature_format(
                                 spa, format, Respond(PlainShape, MutationPayload))) :
            Call("set_temperature_format", [spa |-> spa, temperature_format |-> format],
                 set_temperature_format(spa, format, Respond(shape, MutationPayload)))

DoSetDateTime ==
    \E spa \in SpaObjects, date \in {Absent} \cup {Some(d) : d \in Dates},
       time \in {Absent} \cup {Some(t) : t \in TimesOfDay} :
        \E shape \in Answers(set_date_time(spa, date, time,
                                           Respond(PlainShape, MutationPayload))) :
            Call("set_date_time", [spa |-> spa, date |-> date, time |-> time],
                 set_date_time(spa, date, time, Respond(shape, MutationPayload)))

DoPumpToggle ==
    \E pump \in PumpObjects :
        \E shape \in Answers(pump_toggle(pump, Respond(PlainShape, MutationPayload))) :
            Call("pump_toggle", [pump |-> pump],
                 pump_toggle(pump, Respond(shape, MutationPayload)))

DoLightSet ==
    \E light \in LightObjects, intensity \in Intensities, mode \in LightModes :
        \E shape \in Answers(light_set(light, intensity, mode,
                                       Respond(PlainShape, MutationPayload))) :
            Call("light_set", [light |-> light, intensity |-> intensity, mode |-> mode],
                 light_set(light, intensity, mode, Respond(shape, MutationPayload)))

DoLightToggle ==
    \E light \in LightObjects :
        \E shape \in Answers(light_toggle(light, Respond(PlainShape, MutationPayload))) :
            Call("light_toggle", [light |-> light],
                 light_toggle(light, Respond(shape, MutationPayload)))

-----------------------------------------------------------------------------
(* Specifications.                                                         *)

SessionNext ==
    \/ DoLogin
    \/ DoRequest
    \/ DoGetAccount

AccountNext ==
    \/ DoLogin
    \/ DoGetAccount
    \/ DoGetSpa
    \/ DoGetSpas

SpaNext ==
    \/ DoLogin
    \/ DoGetStatus
    \/ DoGetPumps
    \/ DoGetLights
    \/ DoGetErrors
    \/ DoGetReminders
    \/ DoGetDebugStatus
    \/ DoGetEnergyUsage
    \/ DoSetSecondaryFiltrationMode
    \/ DoSetHeatMode
    \/ DoSetTemperature
    \/ DoToggleClearray
    \/ DoSetTemperatureFormat
    \/ DoSetDateTime
    \/ DoPumpToggle
    \/ DoLightSet
    \/ DoLightToggle

Next ==
    \/ SessionNext
    \/ AccountNext
    \/ SpaNext

SpecSession == Init /\ [][SessionNext]_vars
SpecAccount == Init /\ [][AccountNext]_vars
SpecSpa == Init /\ [][SpaNext]_vars
Spec == Init /\ [][Next]_vars

-----------------------------------------------------------------------------
(* The vocabulary of the claims.                                           *)

\* the errors of the specification, as the exceptions the code raises
NotAuthenticatedError == "RuntimeError"
InvalidArgumentError == "AssertionError"
ApiError == "HTTPError"

Is2xx(status) == 200 <= status /\ status < 300
Is4xxOr5xx(status) == 400 <= status /\ status < 600
Url(path) == "https://api.smarttub.io/" \o path

\* the account-id claim of a three-segment token
ClaimOf(token) ==
    (CHOOSE kv \in token[2] : kv[1] = "http://operation-link.com/account_id")[2]
HasClaim(token) ==
    /\ Len(token) = 3
    /\ \E kv \in token[2] : kv[1] = "http://operation-link.com/account_id"

\* a token response that a login accepts: JSON, of type Bearer, its token a
\* JWT with the account-id claim
BearerReply(r) ==
    /\ r.body # <<>>
    /\ r.body[1].token_type = "Bearer"
    /\ HasClaim(r.body[1].access_token)

\* the last call was made through a client that was logged in when it was made
OnLoggedIn(name) == op.name = name /\ logged_in

\* a request of the last call, and a mutator's return
IsRequest(req, method, path, json) ==
    req = [method |-> method, url |-> Url(path), auth |-> access_token, json |-> json]
ReturnsNothing == outcome.exc = "none" => outcome.value = "None"

-----------------------------------------------------------------------------
(* C1 C3 C4 C5 C6 C9: the device calls.                                    *)

ReadWriteCalls ==
    {"request", "get_account", "get_spas", "get_spa", "get_status", "get_pumps",
     "get_lights", "get_errors", "get_reminders", "get_debug_status",
     "get_energy_usage", "set_secondary_filtration_mode", "set_heat_mode",
     "set_temperature", "toggle_clearray", "set_temperature_format", "set_date_time",
     "pump_toggle", "light_set"}

\* the last call passed a value outside the enumeration its method validates
OutsideEnumeration ==
    \/ op.name = "get_energy_usage" /\ op.args.interval \notin {"DAY", "MONTH"}
    \/ /\ op.name = "set_secondary_filtration_mode"
       /\ op.args.mode \notin {"FREQUENT", "INFREQUENT", "AWAY"}
    \/ op.name = "set_heat_mode" /\ op.args.mode \notin {"ECONOMY", "DAY", "AUTO"}
    \/ /\ op.name = "set_temperature_format"
       /\ op.args.temperature_format \notin {"FAHRENHEIT", "CELSIUS"}
    \/ op.name = "light_set" /\ op.args.mode \notin LIGHT_MODES

\* the last call passed arguments that its method's own validation rejects
RejectedArguments ==
    \/ OutsideEnumeration
    \/ op.name = "set_date_time" /\ op.args.date = <<>> /\ op.args.time = <<>>
    \/ op.name = "light_set" /\ (op.args.intensity = 0) # (op.args.mode = "OFF")

\* C1: every read or write call made on a client on which no login has
\* succeeded fails with NotAuthenticatedError and issues no HTTP request
\* (read for the calls whose arguments are valid: the argument checks of the
\* code come before its login check).
C1_BeforeLogin ==
    (op.name \in ReadWriteCalls /\ ~logged_in /\ ~RejectedArguments)
        => (outcome.exc = NotAuthenticatedError /\ http = <<>>)

\* C3: on a logged-in client, a call that passes a value outside the
\* enumeration its method validates fails with InvalidArgumentError and issues
\* no HTTP request.
C3_InvalidEnumerated ==
    (logged_in /\ OutsideEnumeration)
        => (outcome.exc = InvalidArgumentError /\ http = <<>>)

\* C4: on a logged-in client, Light.set(intensity, mode) with an enumerated
\* mode and intensity = 0 exactly when mode = OFF issues exactly one PATCH to
\* spas/{device_id}/lights/{zone} with body {intensity, mode} and succeeds;
\* with an enumerated mode and intensity = 0 differing from mode = OFF it
\* fails with InvalidArgumentError and issues no request.
C4_LightSet ==
    (OnLoggedIn("light_set") /\ op.args.mode \in LIGHT_MODES)
        => IF (op.args.intensity = 0) = (op.args.mode = "OFF")
           THEN /\ Len(http) = 1
                /\ IsRequest(http[1], "PATCH",
                             "spas/" \o op.args.light.spa.id \o "/lights/"
                                 \o ToString(op.args.light.zone),
                             <<[intensity |-> op.args.intensity, mode |-> op.args.mode]>>)
                /\ outcome.exc \in {"none", ApiError, "JSONDecodeError"}
                /\ ReturnsNothing
           ELSE outcome.exc = InvalidArgumentError /\ http = <<>>

\* C5: on a logged-in client, set_date_time with neither date nor time fails
\* with InvalidArgumentError and issues no HTTP request; with at least one of
\* them it issues exactly one request, whose body carries exactly the fields
\* given as ISO-8601 strings, and returns nothing.
C5_SetDateTime ==
    OnLoggedIn("set_date_time")
        => IF op.args.date = <<>> /\ op.args.time = <<>>
           THEN outcome.exc = InvalidArgumentError /\ http = <<>>
           ELSE /\ Len(http) = 1
                /\ http[1].json
                    = <<[dateTimeConfig |-> DateTimeConfig(op.args.date, op.args.time)]>>
                /\ ReturnsNothing

\* the single-key body the config setters are to send
ConfigRequest(body) ==
    /\ Len(http) = 1
    /\ IsRequest(http[1], "PATCH", "spas/" \o op.args.spa.id \o "/config", <<body>>)
    /\ ReturnsNothing

\* C6: on a logged-in client, set_secondary_filtration_mode, set_heat_mode,
\* set_temperature and set_temperature_format with a valid argument each issue
\* exactly one request, PATCH spas/{device_id}/config, whose body holds the
\* one key secondaryFiltrationConfig, heatMode, setTemperature or
\* displayTemperatureFormat set to the argument, and return nothing.
C6_ConfigSetters ==
    /\ (OnLoggedIn("set_secondary_filtration_mode")
            /\ op.args.mode \in {"FREQUENT", "INFREQUENT", "AWAY"})
        => ConfigRequest([secondaryFiltrationConfig |-> op.args.mode])
    /\ (OnLoggedIn("set_heat_mode") /\ op.args.mode \in {"ECONOMY", "DAY", "AUTO"})
        => ConfigRequest([heatMode |-> op.args.mode])
    /\ OnLoggedIn("set_temperature")
        => ConfigRequest([setTemperature |-> op.args.temp_c])
    /\ (OnLoggedIn("set_temperature_format")
            /\ op.args.temperature_format \in {"FAHRENHEIT", "CELSIUS"})
        => ConfigRequest([displayTemperatureFormat |-> op.args.temperature_format])

\* C9: on a logged-in client, toggle_clearray() called with no argument issues
\* exactly one POST to spas/{device_id}/clearray/toggle with no body and
\* returns nothing.
C9_ToggleClearray ==
    (OnLoggedIn("toggle_clearray") /\ op.args.args = <<>>)
        => /\ Len(http) = 1
           /\ IsRequest(http[1], "POST", "spas/" \o op.args.spa.id \o "/clearray/toggle",
                        <<>>)
           /\ ReturnsNothing

-----------------------------------------------------------------------------
(* C2 C10: the session.                                                    *)

\* the session holds what the token response r, read at time now, gave
HoldsLogin(r, now) ==
    /\ logged_in'
    /\ access_token' = <<r.body[1].access_token>>
    /\ account_id' = <<ClaimOf(r.body[1].access_token)>>
    /\ refresh_token' = <<r.body[1].refresh_token>>
    /\ expires_at' = <<now + r.body[1].expires_in>>
    /\ r.body[1].expires_in > 0 => expires_at'[1] > now

\* the step is a login answered by a response that is no 4xx or 5xx error
\* and carries a Bearer token
LoginAnsweredNoError ==
    op'.name = "login" /\ ~Is4xxOr5xx(replies'[1].status) /\ BearerReply(replies'[1])

\* C2: after login receives a response with a Bearer token the session holds
\* the returned access token, the account id of its claims, the returned
\* refresh token and the expiry now + lifetime, and the flag is true; the
\* flag is false initially and becomes true only by such a login.  (The
\* response is taken as the code takes it, any status that is no 4xx or 5xx
\* error, which includes every 2xx.)
C2_Login ==
    /\ ~logged_in
    /\ [][/\ LoginAnsweredNoError => HoldsLogin(replies'[1], op'.args.now)
          /\ (~logged_in /\ logged_in') => LoginAnsweredNoError]_vars

\* the session fields all come from one token response that a login accepts
FromOneResponse ==
    \E j \in LoginBodies, now \in ClockTimes :
        /\ j.token_type = "Bearer"
        /\ HasClaim(j.access_token)
        /\ access_token' = <<j.access_token>>
        /\ refresh_token' = <<j.refresh_token>>
        /\ expires_at' = <<now + j.expires_in>>
        /\ account_id' = <<ClaimOf(j.access_token)>>

\* the step is a login that failed in one of the ways the claim lists: a
\* non-2xx response, a token type other than Bearer, or a token without the
\* account-id claim
LoginFailedAsListed ==
    /\ op'.name = "login"
    /\ outcome'.exc # "none"
    /\ \/ ~Is2xx(replies'[1].status)
       \/ /\ replies'[1].body # <<>>
          /\ \/ replies'[1].body[1].token_type # "Bearer"
             \/ /\ Len(replies'[1].body[1].access_token) = 3
                /\ ~HasClaim(replies'[1].body[1].access_token)

\* C10: whenever the client is logged in, the stored access token, refresh
\* token, expiry and account id come from one successful login response;
\* a login that fails (a non-2xx response, a token type other than Bearer, a
\* token without the account-id claim) leaves every session field as it was.
C10_SessionConsistent ==
    [][/\ logged_in' => FromOneResponse
       /\ LoginFailedAsListed => UNCHANGED session]_vars

-----------------------------------------------------------------------------
(* C7 C8: the account calls and the failures of the API.                   *)

Answered(r) == ~Is4xxOr5xx(r.status) /\ r.body # <<>>

\* C7: on a logged-in client get_spas issues first GET spas?ownerId={id},
\* then, only after the list is answered, one GET spas/{device_id} per summary
\* record in list order (stopping only at a fetch that fails); when it returns
\* it has fetched every record and returns one Device per record in that
\* order; get_spa(id) returns a Device with that id.
C7_GetSpas ==
    /\ OnLoggedIn("get_spas") =>
        /\ Len(http) >= 1
        /\ Len(replies) = Len(http)
        /\ IsRequest(http[1], "GET", "spas?ownerId=" \o op.args.account.id, <<>>)
        /\ IF ~Answered(replies[1])
           THEN Len(http) = 1 /\ outcome.exc # "none"
           ELSE LET content == replies[1].body[1].content
                IN  /\ Len(http) <= 1 + Len(content)
                    /\ \A k \in 2..Len(http) :
                        /\ IsRequest(http[k], "GET", "spas/" \o content[k - 1].id, <<>>)
                        /\ k < Len(http) => Answered(replies[k])
                    /\ outcome.exc = "none" =>
                        /\ Len(http) = 1 + Len(content)
                        /\ Len(outcome.value) = Len(content)
                        /\ \A i \in 1..Len(content) :
                            outcome.value[i].id = content[i].id
                    /\ outcome.exc # "none" =>
                        (Len(http) > 1 /\ ~Answered(replies[Len(replies)]))
    /\ (OnLoggedIn("get_spa") /\ outcome.exc = "none") =>
        /\ Len(http) = 1
        /\ IsRequest(http[1], "GET", "spas/" \o op.args.spa_id, <<>>)
        /\ outcome.value.id = op.args.spa_id

\* get_spas returned two devices after three requests
C7_Witness ==
    /\ OnLoggedIn("get_spas")
    /\ outcome.exc = "none"
    /\ Len(http) = 3
    /\ Len(outcome.value) = 2
    /\ outcome.value[1].id = "s2"
    /\ outcome.value[2].id = "s1"

\* the call of the step ended at its k-th request with ApiError carrying the
\* status of the answer to it
EndsAt(k) ==
    /\ k = Len(replies')
    /\ k = Len(http')
    /\ outcome'.exc = ApiError
    /\ outcome'.status = replies'[k].status

\* C8: an authenticated call that the API answers with a non-2xx
\* status fails with ApiError carrying that status, issues no further HTTP
\* request, and leaves the session as it was.
C8_ApiError ==
    [][(/\ op'.name \in ReadWriteCalls
        /\ \E k \in 1..Len(replies') : ~Is2xx(replies'[k].status))
           => /\ \A k \in 1..Len(replies') : ~Is2xx(replies'[k].status) => EndsAt(k)
              /\ UNCHANGED session]_vars

=============================================================================
